---- MODULE Spec2Model ----
(***************************************************************************)
(* Mountpath lifecycle of a storage target (fsprungroup, src/dfc/hrw.go).  *)
(*                                                                         *)
(* The four lifecycle wrappers (enableMountpath, disableMountpath,         *)
(* addMountpath, removeMountpath), the post-event functions                *)
(* (addMpathEvent, delMpathEvent, checkZeroMountpaths, checkEnable) and    *)
(* the metadata-redistribution hook (redistributeMD) are translated from   *)
(* the source.  The collaborators they call and whose code is not part of  *)
(* the source tree (the fs registry mutators, the local GFN flag, the      *)
(* target's self enable/disable) are modelled from the specification.      *)
(***************************************************************************)
EXTENDS Integers, Sequences, FiniteSets, TLC

VARIABLES
    cli,             \* the CLI utility in progress: its inputs, locals and output
    vmd,             \* the registry recorded in the VMD file on disk
    hrw,             \* the target picker: cluster map, weights, last decision
    pk,              \* a mountpath pick in progress
    avail,           \* fs registry: available (enabled) mountpaths
    disabled,        \* fs registry: disabled mountpaths
    gfn,             \* g.t.gfn.local: the target's local GFN flag
    registered,      \* whether the target is registered (TargetSelf)
    alive,           \* FALSE once cos.ExitLogf terminated the process
    resilverEnabled, \* cmn.GCO.Get().Resilver.Enabled
    pending,         \* goroutines dispatched with `go` and not yet run
    ran,             \* what the goroutine that ran last did
    last,            \* record of the last lifecycle call
    th               \* the lifecycle call each thread is executing, and where

vars == <<cli, vmd, hrw, pk, avail, disabled, gfn, registered, alive, resilverEnabled,
          pending, ran, last, th>>

----------------------------------------------------------------------------
(* Bounds and inputs *)

\* goroutines that may be waiting to run at the same time
MaxPending == 2

\* threads (request handlers) that may be inside a lifecycle call at once
Threads == {1, 2}

Mpaths == {"/m1", "/m2", "/m3"}

NoMpath == "nil"

\* filesystem identity of each mountpath: /m1 and /m2 are on the same device
Fsid == [p \in Mpaths |-> IF p = "/m3" THEN "fsB" ELSE "fsA"]

\* registries a target can start with (loaded from its configuration)
InitRegistries == {{}, {"/m1"}, {"/m1", "/m3"}}

\* outcomes of the collaborators' calls that the code branches on:
\*   bmdEnough: hasEnoughBMDCopies();  bmdOK: owner.bmd.persist() == nil;
\*   vmdOK: fs.CreateNewVMD err == nil; selfOK: t.enable()/t.disable() == nil
\* (a call that is not made has no outcome: persist() is only called when
\* bmdEnough is false, CreateNewVMD only when the process did not exit)
Inputs ==
    {in \in [bmdEnough : BOOLEAN, bmdOK : BOOLEAN, vmdOK : BOOLEAN, selfOK : BOOLEAN] :
        /\ in.bmdEnough => in.bmdOK
        /\ ~in.bmdOK => in.vmdOK}

addMpathAct == "Added"
enableMpathAct == "Enabled"
removeMpathAct == "Removed"
disableMpathAct == "Disabled"

----------------------------------------------------------------------------
(* Helpers on event sequences *)

RECURSIVE Count(_, _)
Count(s, e) ==
    IF s = <<>> THEN 0
    ELSE (IF Head(s) = e THEN 1 ELSE 0) + Count(Tail(s), e)

\* index of the first occurrence of e in s, 0 when absent
RECURSIVE IndexFrom(_, _, _)
IndexFrom(s, e, i) ==
    IF i > Len(s) THEN 0
    ELSE IF s[i] = e THEN i
    ELSE IndexFrom(s, e, i + 1)

IndexOf(s, e) == IndexFrom(s, e, 1)

RemoveAt(s, i) == [j \in 1..(Len(s) - 1) |-> IF j < i THEN s[j] ELSE s[j + 1]]

----------------------------------------------------------------------------
(* GFN gate: g.t.gfn.local *)

\* Activate() sets the flag and returns whether it was already active
Activate(flag) == [previous |-> flag, flag |-> TRUE]

\* Deactivate() clears the flag
Deactivate(flag) == FALSE

----------------------------------------------------------------------------
(* Metadata-redistribution hook *)

\* a hook that creates the VMD only when the BMD needed no persist
redistributeMD_elseif(in) ==
    IF ~in.bmdEnough
    THEN IF in.bmdOK THEN [events |-> <<"bmd.persist">>,
          exit |-> FALSE, enough |-> in.bmdEnough]
         ELSE [events |-> <<"bmd.persist:err", "ExitLogf">>,
               exit |-> TRUE, enough |-> in.bmdEnough]
    ELSE IF in.vmdOK THEN [events |-> <<"CreateNewVMD">>,
          exit |-> FALSE, enough |-> in.bmdEnough]
         ELSE [events |-> <<"CreateNewVMD:err", "ExitLogf">>,
               exit |-> TRUE, enough |-> in.bmdEnough]

\* a hook that logs a failed CreateNewVMD and carries on
redistributeMD_noexit(in) ==
    LET persist == IF ~in.bmdEnough THEN <<"bmd.persist">> ELSE <<>>
    IN  IF ~in.bmdEnough /\ ~in.bmdOK
        THEN [events |-> <<"bmd.persist:err", "ExitLogf">>,
              exit |-> TRUE, enough |-> in.bmdEnough]
        ELSE IF ~in.vmdOK
        THEN [events |-> persist \o <<"CreateNewVMD:err">>,
              exit |-> FALSE, enough |-> in.bmdEnough]
        ELSE [events |-> persist \o <<"CreateNewVMD">>,
              exit |-> FALSE, enough |-> in.bmdEnough]

\* the events name the calls made; a call that returned an error is marked
\* ":err", and cos.ExitLogf terminates the process; enough is what
\* hasEnoughBMDCopies() returned
redistributeMD(in) ==
    LET persist == IF ~in.bmdEnough THEN <<"bmd.persist">> ELSE <<>>
    IN  IF ~in.bmdEnough /\ ~in.bmdOK
        THEN [events |-> <<"bmd.persist:err", "ExitLogf">>,
              exit |-> TRUE, enough |-> in.bmdEnough]
        ELSE IF ~in.vmdOK
        THEN [events |-> persist \o <<"CreateNewVMD:err", "ExitLogf">>,
              exit |-> TRUE, enough |-> in.bmdEnough]
        ELSE [events |-> persist \o <<"CreateNewVMD">>,
              exit |-> FALSE, enough |-> in.bmdEnough]

----------------------------------------------------------------------------
(* FS registry mutators.  Each returns the descriptor (mi) or NoMpath, the  *)
(* error, the registry it publishes, and what the hook did; the hook is     *)
(* invoked once on a real transition, before the new state is published,    *)
(* and a hook that exits the process publishes nothing.  staged is the      *)
(* registry the mutator holds under its lock when it invokes the hook, the  *)
(* one fs.CreateNewVMD writes out; wrote tells whether the hook wrote it.   *)

NoChange(av, dis, e) ==
    [mi |-> NoMpath, err |-> e, avail |-> av, disabled |-> dis,
     events |-> <<>>, exit |-> FALSE, enough |-> "n/a",
     staged |-> [avail |-> av, disabled |-> dis], wrote |-> FALSE]

Publish(mpath, av, dis, newAv, newDis, h) ==
    [mi |-> mpath, err |-> "nil",
     avail |-> IF h.exit THEN av ELSE newAv,
     disabled |-> IF h.exit THEN dis ELSE newDis,
     events |-> h.events, exit |-> h.exit,
     enough |-> IF h.enough THEN "true" ELSE "false",
     staged |-> [avail |-> newAv, disabled |-> newDis],
     wrote |-> Count(h.events, "CreateNewVMD") > 0]

fsAdd(mpath, av, dis, h) ==
    IF mpath \in av \cup dis THEN NoChange(av, dis, "EEXIST")
    ELSE IF \E q \in av : Fsid[q] = Fsid[mpath] THEN NoChange(av, dis, "EDUPFS")
    ELSE Publish(mpath, av, dis, av \cup {mpath}, dis, h)

fsRemove(mpath, av, dis, h) ==
    IF mpath \notin av \cup dis THEN NoChange(av, dis, "ENOENT")
    ELSE Publish(mpath, av, dis, av \ {mpath}, dis \ {mpath}, h)

fsEnable(mpath, av, dis, h) ==
    IF mpath \in av THEN NoChange(av, dis, "nil")
    ELSE IF mpath \in dis
    THEN Publish(mpath, av, dis, av \cup {mpath}, dis \ {mpath}, h)
    ELSE NoChange(av, dis, "ENOENT")

fsDisable(mpath, av, dis, h) ==
    IF mpath \in dis THEN NoChange(av, dis, "nil")
    ELSE IF mpath \in av
    THEN Publish(mpath, av, dis, av \ {mpath}, dis \cup {mpath}, h)
    ELSE NoChange(av, dis, "ENOENT")

\* fs.Get(): the available mountpaths of the published registry
fsGet(av) == av

----------------------------------------------------------------------------
(* TargetSelf: g.t.enable() / g.t.disable() *)

\* register the target again; an error leaves the registration as it was
tEnable(reg, ok) == [err |-> IF ok THEN "nil" ELSE "EREG", registered |-> IF ok THEN TRUE ELSE reg]

\* unregister the target; an error leaves the registration as it was
tDisable(reg, ok) == [err |-> IF ok THEN "nil" ELSE "EREG", registered |-> IF ok THEN FALSE ELSE reg]

----------------------------------------------------------------------------
(* Post-event checks *)

\* a check that detects zero mountpaths but forgets to unregister
checkZeroMountpaths_nocall(action, av, reg, in) ==
    [disabled |-> Cardinality(fsGet(av)) = 0, events |-> <<>>,
     registered |-> reg, logged |-> "nil"]

\* a check that unregisters while one mountpath is still available
checkZeroMountpaths_offByOne(action, av, reg, in) ==
    LET availablePaths == fsGet(av)
    IN  IF Cardinality(availablePaths) > 1
        THEN [disabled |-> FALSE, events |-> <<>>, registered |-> reg, logged |-> "nil"]
        ELSE LET d == tDisable(reg, in.selfOK)
             IN  [disabled |-> TRUE,
                  events |-> <<"TargetSelf.disable", "log:" \o action \o " the last">>,
                  registered |-> d.registered,
                  logged |-> d.err]

\* Check for no mountpaths and unregister (disable) the target if detected.
checkZeroMountpaths(action, av, reg, in) ==
    LET availablePaths == fsGet(av)
    IN  IF Cardinality(availablePaths) > 0
        THEN [disabled |-> FALSE, events |-> <<>>, registered |-> reg, logged |-> "nil"]
        ELSE LET d == tDisable(reg, in.selfOK)
             IN  [disabled |-> TRUE,
                  events |-> <<"TargetSelf.disable", "log:" \o action \o " the last">>,
                  registered |-> d.registered,
                  logged |-> d.err]

checkEnable(action, mpath, av, reg, in) ==
    LET availablePaths == fsGet(av)
    IN  IF Cardinality(availablePaths) > 1
        THEN [events |-> <<"log:" \o action>>, registered |-> reg, logged |-> "nil"]
        ELSE LET e == tEnable(reg, in.selfOK)
             IN  [events |-> <<"log:" \o action \o " the first", "TargetSelf.enable">>,
                  registered |-> e.registered,
                  logged |-> e.err]

----------------------------------------------------------------------------
(* Lifecycle events *)

Job(kind, mpath) == [kind |-> kind, mpath |-> mpath]

\* ids that tell apart the pending goroutines running the same function
GoIds == 0..MaxPending

\* the `go` statements: each starts a new goroutine; its id is the least one
\* not borne by a pending goroutine of the same kind and mountpath
RECURSIVE Dispatch(_, _)
Dispatch(p, jobs) ==
    IF jobs = <<>> THEN p
    ELSE LET j == Head(jobs)
             used == {p[k].id : k \in {i \in DOMAIN p :
                                        p[i].kind = j.kind /\ p[i].mpath = j.mpath}}
             id == CHOOSE x \in GoIds \ used : \A y \in GoIds \ used : x <= y
         IN  Dispatch(Append(p, [kind |-> j.kind, mpath |-> j.mpath, id |-> id]),
                      Tail(jobs))

\* an event that aborts the xactions after the dispatch and the check
addMpathEvent_abortLast(action, mi, av, reg, in) ==
    LET c == checkEnable(action, mi, av, reg, in)
    IN  [action |-> action,
         events |-> <<"go:add-mp">> \o c.events \o <<"AbortAllMountpathsXactions">>,
         jobs |-> <<Job("add-mp", NoMpath)>>,
         registered |-> c.registered,
         logged |-> c.logged]

addMpathEvent(action, mi, av, reg, in) ==
    LET c == checkEnable(action, mi, av, reg, in)
    IN  [action |-> action,
         events |-> <<"AbortAllMountpathsXactions", "go:add-mp">> \o c.events,
         jobs |-> <<Job("add-mp", NoMpath)>>,
         registered |-> c.registered,
         logged |-> c.logged]

\* an event that evicts the LOM cache only after the zero-mountpath check
\* let it pass
delMpathEvent_evictAfterCheck(action, mi, av, reg, in) ==
    LET z == checkZeroMountpaths(action, av, reg, in)
        head == <<"AbortAllMountpathsXactions">> \o z.events
    IN  IF z.disabled
        THEN [action |-> action, events |-> head, jobs |-> <<>>,
              registered |-> z.registered, logged |-> z.logged]
        ELSE [action |-> action,
              events |-> head \o <<"go:EvictLomCache", "go:del-mp">>,
              jobs |-> <<Job("EvictLomCache", mi), Job("del-mp", NoMpath)>>,
              registered |-> z.registered, logged |-> z.logged]

delMpathEvent(action, mi, av, reg, in) ==
    LET z == checkZeroMountpaths(action, av, reg, in)
        head == <<"AbortAllMountpathsXactions", "go:EvictLomCache">> \o z.events
    IN  IF z.disabled
        THEN [action |-> action, events |-> head,
              jobs |-> <<Job("EvictLomCache", mi)>>,
              registered |-> z.registered, logged |-> z.logged]
        ELSE [action |-> action, events |-> head \o <<"go:del-mp">>,
              jobs |-> <<Job("EvictLomCache", mi), Job("del-mp", NoMpath)>>,
              registered |-> z.registered, logged |-> z.logged]

\* no lifecycle event: the early return of a wrapper
NoEvent(reg) ==
    [action |-> "none", events |-> <<>>, jobs |-> <<>>,
     registered |-> reg, logged |-> "nil"]

----------------------------------------------------------------------------
(* Lifecycle wrappers.  `last` records the last call: its arguments, what  *)
(* it returned, the state it began and ended in, and the calls it made in   *)
(* order (events); seq alternates with every call.                          *)

NoCall ==
    [seq |-> 0, op |-> "none", mpath |-> NoMpath, outcome |-> "none",
     bool |-> "n/a", err |-> "nil",
     gfnBefore |-> FALSE, gfnAfter |-> FALSE,
     availBefore |-> {}, disabledBefore |-> {},
     availAfter |-> {}, disabledAfter |-> {},
     regBefore |-> FALSE, regAfter |-> FALSE,
     action |-> "none", logged |-> "nil", events |-> <<>>, enough |-> "n/a"]

\* `if err != nil || mi == nil` with the nil test dropped
isEarlyReturn_errOnly(m) == m.err # "nil"

\* `if err != nil || mi == nil`: the mutator failed or changed nothing
isEarlyReturn(m) == m.err # "nil" \/ m.mi = NoMpath

\* an early return that never releases the gate
earlyReturn_never(gfnActive, flag) == [flag |-> flag, events |-> <<>>]

\* an early return that releases the gate whoever activated it
earlyReturn_always(gfnActive, flag) ==
    [flag |-> Deactivate(flag), events |-> <<"Deactivate">>]

\* the early-return branch: `if !gfnActive { g.t.gfn.local.Deactivate() }`
earlyReturn(gfnActive, flag) ==
    IF ~gfnActive
    THEN [flag |-> Deactivate(flag), events |-> <<"Deactivate">>]
    ELSE [flag |-> flag, events |-> <<>>]

\* `return false, err` of enableMountpath / disableMountpath
retFalse(m) == [bool |-> "false", err |-> m.err]

\* a success return that hands the registration error to the caller
retTrue_propagate(ev) ==
    [bool |-> IF ev.logged = "nil" THEN "true" ELSE "false", err |-> ev.logged]

\* `return true, nil` of enableMountpath / disableMountpath
retTrue(ev) == [bool |-> "true", err |-> "nil"]

\* an early exit that drops the mutator's error
retErr_swallow(m) == [bool |-> "n/a", err |-> "nil"]

\* the bare `return` of addMountpath / removeMountpath on the early exit
retErr(m) == [bool |-> "n/a", err |-> m.err]

\* the bare `return` of addMountpath / removeMountpath after the event:
\* err is the (nil) error of the mutator
retNil(m, ev) == [bool |-> "n/a", err |-> m.err]

\* there is room for the goroutines a call can dispatch (up to two)
Room == Len(pending) + 2 <= MaxPending

\* a call can be made while the process runs; one that returns is taken
\* only when there is room for its goroutines
CanCall == alive

\* cos.ExitLogf inside the hook: the process terminates in the mutator
Exited(op, mpath, m) ==
    /\ alive' = FALSE
    /\ gfn' = Activate(gfn).flag
    /\ last' = [seq |-> 1 - last.seq, op |-> op, mpath |-> mpath, outcome |-> "exit",
                bool |-> "n/a", err |-> "nil",
                gfnBefore |-> gfn, gfnAfter |-> Activate(gfn).flag,
                availBefore |-> avail, disabledBefore |-> disabled,
                availAfter |-> m.avail, disabledAfter |-> m.disabled,
                regBefore |-> registered, regAfter |-> registered,
                action |-> "none", logged |-> "nil",
                events |-> <<"Activate">> \o m.events, enough |-> m.enough]
    /\ avail' = m.avail
    /\ disabled' = m.disabled
    /\ vmd' = IF m.wrote THEN m.staged ELSE vmd
    /\ UNCHANGED <<cli, hrw, pk, registered, resilverEnabled, pending, ran, th>>

\* the call returned: g is the GFN flag and the events of the exit taken,
\* ev the lifecycle event fired (NoEvent on the early return), ret the
\* returned values
Returned(op, mpath, m, g, ev, ret) ==
    /\ Room
    /\ alive' = alive
    /\ gfn' = g.flag
    /\ avail' = m.avail
    /\ disabled' = m.disabled
    /\ vmd' = IF m.wrote THEN m.staged ELSE vmd
    /\ registered' = ev.registered
    /\ pending' = Dispatch(pending, ev.jobs)
    /\ last' = [seq |-> 1 - last.seq, op |-> op, mpath |-> mpath,
                outcome |-> IF m.err # "nil" THEN "error"
                            ELSE IF m.mi = NoMpath THEN "noop"
                            ELSE "transition",
                bool |-> ret.bool, err |-> ret.err,
                gfnBefore |-> gfn, gfnAfter |-> g.flag,
                availBefore |-> avail, disabledBefore |-> disabled,
                availAfter |-> m.avail, disabledAfter |-> m.disabled,
                regBefore |-> registered, regAfter |-> ev.registered,
                action |-> ev.action, logged |-> ev.logged,
                events |-> <<"Activate">> \o m.events \o g.events \o ev.events,
                enough |-> m.enough]
    /\ UNCHANGED <<cli, hrw, pk, resilverEnabled, ran, th>>

\* the success exit leaves the flag as Activate() set it
Active(flag) == [flag |-> Activate(flag).flag, events |-> <<>>]

\* an enable wrapper that calls the mutator of its neighbour, fs.Disable
enableMountpath_callsDisable(mpath, in) ==
    /\ CanCall
    /\ LET gfnActive == Activate(gfn).previous
           m == fsDisable(mpath, avail, disabled, redistributeMD(in))
       IN  IF m.exit THEN Exited("enable", mpath, m)
           ELSE IF isEarlyReturn(m)
           THEN Returned("enable", mpath, m,
                         earlyReturn(gfnActive, Activate(gfn).flag),
                         NoEvent(registered), retFalse(m))
           ELSE LET ev == addMpathEvent(enableMpathAct, m.mi, m.avail, registered, in)
                IN  Returned("enable", mpath, m, Active(gfn), ev, retTrue(ev))

enableMountpath(mpath, in) ==
    /\ CanCall
    /\ LET gfnActive == Activate(gfn).previous
           m == fsEnable(mpath, avail, disabled, redistributeMD(in))
       IN  IF m.exit THEN Exited("enable", mpath, m)
           ELSE IF isEarlyReturn(m)
           THEN Returned("enable", mpath, m,
                         earlyReturn(gfnActive, Activate(gfn).flag),
                         NoEvent(registered), retFalse(m))
           ELSE LET ev == addMpathEvent(enableMpathAct, m.mi, m.avail, registered, in)
                IN  Returned("enable", mpath, m, Active(gfn), ev, retTrue(ev))

disableMountpath(mpath, in) ==
    /\ CanCall
    /\ LET gfnActive == Activate(gfn).previous
           m == fsDisable(mpath, avail, disabled, redistributeMD(in))
       IN  IF m.exit THEN Exited("disable", mpath, m)
           ELSE IF isEarlyReturn(m)
           THEN Returned("disable", mpath, m,
                         earlyReturn(gfnActive, Activate(gfn).flag),
                         NoEvent(registered), retFalse(m))
           ELSE LET ev == delMpathEvent(disableMpathAct, m.mi, m.avail, registered, in)
                IN  Returned("disable", mpath, m, Active(gfn), ev, retTrue(ev))

addMountpath(mpath, in) ==
    /\ CanCall
    /\ LET gfnActive == Activate(gfn).previous
           m == fsAdd(mpath, avail, disabled, redistributeMD(in))
       IN  IF m.exit THEN Exited("add", mpath, m)
           ELSE IF isEarlyReturn(m)
           THEN Returned("add", mpath, m,
                         earlyReturn(gfnActive, Activate(gfn).flag),
                         NoEvent(registered), retErr(m))
           ELSE LET ev == addMpathEvent(addMpathAct, m.mi, m.avail, registered, in)
                IN  Returned("add", mpath, m, Active(gfn), ev, retNil(m, ev))

removeMountpath(mpath, in) ==
    /\ CanCall
    /\ LET gfnActive == Activate(gfn).previous
           m == fsRemove(mpath, avail, disabled, redistributeMD(in))
       IN  IF m.exit THEN Exited("remove", mpath, m)
           ELSE IF isEarlyReturn(m)
           THEN Returned("remove", mpath, m,
                         earlyReturn(gfnActive, Activate(gfn).flag),
                         NoEvent(registered), retErr(m))
           ELSE LET ev == delMpathEvent(removeMpathAct, m.mi, m.avail, registered, in)
                IN  Returned("remove", mpath, m, Active(gfn), ev, retNil(m, ev))

----------------------------------------------------------------------------
(* The same wrappers, one shared-state access per step, for calls that     *)
(* overlap.  A thread's record holds the locals of its call: gfnActive,    *)
(* the mutator's result (mi, err), the snapshot fs.Get() returned to the   *)
(* post-event check, and at the return the calls it made after the mutator *)
(* and its result.  The goroutines a call starts read and write nothing    *)
(* the wrappers use; their scheduling is explored under Spec, and these    *)
(* steps leave pending alone.                                              *)

\* the mountpaths the overlapping calls name (on different filesystems)
MpathsC == {"/m1", "/m3"}

Idle ==
    [pc |-> "idle", op |-> "none", mpath |-> NoMpath, gfnActive |-> FALSE,
     mi |-> NoMpath, err |-> "nil", snapshot |-> {}, events |-> <<>>,
     bool |-> "n/a", staged |-> [avail |-> {}, disabled |-> {}], wrote |-> FALSE]

MutatorOf(op, mpath, h) ==
    CASE op = "add" -> fsAdd(mpath, avail, disabled, h)
      [] op = "remove" -> fsRemove(mpath, avail, disabled, h)
      [] op = "enable" -> fsEnable(mpath, avail, disabled, h)
      [] op = "disable" -> fsDisable(mpath, avail, disabled, h)

ActionOf(op) ==
    CASE op = "add" -> addMpathAct
      [] op = "remove" -> removeMpathAct
      [] op = "enable" -> enableMpathAct
      [] op = "disable" -> disableMpathAct

\* gfnActive = g.t.gfn.local.Activate()
Begin(t, op, mpath) ==
    /\ alive
    /\ th[t].pc = "idle"
    /\ gfn' = Activate(gfn).flag
    /\ th' = [th EXCEPT ![t] = [Idle EXCEPT !.pc = "mutate", !.op = op,
                                            !.mpath = mpath,
                                            !.gfnActive = Activate(gfn).previous]]
    /\ UNCHANGED <<cli, vmd, hrw, pk, avail, disabled, registered, alive, resilverEnabled,
                   pending, ran, last>>

\* the registry lock is held by the mutator that has run the hook and
\* has not yet published
Locked == \E u \in Threads : th[u].pc = "publish"

\* fs.Enable / Disable / Add / Remove(mpath, g.redistributeMD) up to the
\* return of the hook: the mutator takes the lock, validates, stages the new
\* registry and invokes the hook, which writes the VMD or exits
Mutate(t, in) ==
    /\ alive
    /\ th[t].pc = "mutate"
    /\ ~Locked
    /\ LET m == MutatorOf(th[t].op, th[t].mpath, redistributeMD(in))
       IN  /\ vmd' = IF m.wrote THEN m.staged ELSE vmd
           /\ alive' = ~m.exit
           /\ th' = [th EXCEPT ![t].pc = IF m.exit THEN "exit"
                                         ELSE IF isEarlyReturn(m) THEN "early"
                                         ELSE "publish",
                               ![t].mi = m.mi,
                               ![t].err = m.err,
                               ![t].staged = m.staged,
                               ![t].wrote = m.wrote]
    /\ UNCHANGED <<cli, hrw, pk, avail, disabled, gfn, registered, resilverEnabled,
                   pending, ran, last>>

\* the mutator publishes the staged registry, releases the lock and returns
\* mi, err to the wrapper
PublishNew(t) ==
    /\ alive
    /\ th[t].pc = "publish"
    /\ avail' = th[t].staged.avail
    /\ disabled' = th[t].staged.disabled
    /\ th' = [th EXCEPT ![t].pc = "event", ![t].staged = Idle.staged]
    /\ UNCHANGED <<cli, vmd, hrw, pk, gfn, registered, alive, resilverEnabled,
                   pending, ran, last>>

\* if !gfnActive { Deactivate() }; return
Early(t) ==
    /\ alive
    /\ th[t].pc = "early"
    /\ LET g == earlyReturn(th[t].gfnActive, gfn)
           ret == IF th[t].op \in {"enable", "disable"}
                  THEN retFalse(th[t]) ELSE retErr(th[t])
       IN  /\ gfn' = g.flag
           /\ th' = [th EXCEPT ![t].pc = "ret",
                               ![t].events = @ \o g.events,
                               ![t].bool = ret.bool,
                               ![t].err = ret.err]
    /\ UNCHANGED <<cli, vmd, hrw, pk, avail, disabled, registered, alive, resilverEnabled,
                   pending, ran, last>>

\* availablePaths, _ := fs.Get() of checkEnable / checkZeroMountpaths
GetSnapshot(t) ==
    /\ alive
    /\ th[t].pc = "event"
    /\ th' = [th EXCEPT ![t].pc = "check", ![t].snapshot = fsGet(avail)]
    /\ UNCHANGED <<cli, vmd, hrw, pk, avail, disabled, gfn, registered, alive, resilverEnabled,
                   pending, ran, last>>

\* the rest of addMpathEvent / delMpathEvent on that snapshot, and the return
Event(t, in) ==
    /\ alive
    /\ th[t].pc = "check"
    /\ LET ev == IF th[t].op \in {"add", "enable"}
                 THEN addMpathEvent(ActionOf(th[t].op), th[t].mi, th[t].snapshot,
                                    registered, in)
                 ELSE delMpathEvent(ActionOf(th[t].op), th[t].mi, th[t].snapshot,
                                    registered, in)
           ret == IF th[t].op \in {"enable", "disable"}
                  THEN retTrue(ev) ELSE retNil(th[t], ev)
       IN  /\ registered' = ev.registered
           /\ th' = [th EXCEPT ![t].pc = "ret",
                               ![t].events = @ \o ev.events,
                               ![t].bool = ret.bool,
                               ![t].err = ret.err]
    /\ UNCHANGED <<cli, vmd, hrw, pk, avail, disabled, gfn, alive, resilverEnabled, pending, ran, last>>

\* the caller has the result; the thread is free for the next call
Return(t) ==
    /\ alive
    /\ th[t].pc = "ret"
    /\ th' = [th EXCEPT ![t] = Idle]
    /\ UNCHANGED <<cli, vmd, hrw, pk, avail, disabled, gfn, registered, alive, resilverEnabled,
                   pending, ran, last>>

----------------------------------------------------------------------------
(* Goroutines dispatched by the lifecycle events *)

\* the body of the goroutine: resilver (when enabled) then RenewMakeNCopies,
\* or mpath.EvictLomCache()
\* a goroutine that runs the resilver only
jobBody_resilverOnly(job, enabled) ==
    IF job.kind = "EvictLomCache" THEN <<"EvictLomCache">>
    ELSE IF enabled THEN <<"runResilver">> ELSE <<>>

jobBody(job, enabled) ==
    IF job.kind = "EvictLomCache" THEN <<"EvictLomCache">>
    ELSE (IF enabled THEN <<"runResilver">> ELSE <<>>)
         \o <<"RenewMakeNCopies:" \o job.kind>>

RunGoroutine(i) ==
    /\ alive
    /\ i \in 1..Len(pending)
    /\ ran' = jobBody(pending[i], resilverEnabled)
    /\ pending' = RemoveAt(pending, i)
    /\ UNCHANGED <<cli, vmd, hrw, pk, avail, disabled, gfn, registered, alive, resilverEnabled, last, th>>

----------------------------------------------------------------------------
(* HRW placement: hrwTarget over the cluster map.  The digest             *)
(* xxhash.ChecksumString32S(id+":"+name, LCG32) of a key is a value of     *)
(* hrw.w, a table chosen at the start and the same for every call (one     *)
(* object name); `for ... range` visits a Go map in an order that differs  *)
(* from one execution of the loop to the next, so a call takes the order   *)
(* as its input.                                                           *)

\* the largest digest told apart (the digests are uint32)
MaxWeight == 3

TargetIds == {"t1", "t2", "t3"}

\* si == nil
NoTarget == "nil"

\* the orders in which a range loop can visit the keys of a map
Orders(keys) ==
    {o \in [1..Cardinality(keys) -> keys] : \A i, j \in DOMAIN o : i # j => o[i] # o[j]}

\* cs := xxhash...(id+":"+name, LCG32); if cs > max { max = cs; si = sinfo }
hrwTargetVisit(acc, id, w) ==
    IF w[id] > acc.max THEN [max |-> w[id], si |-> id] ELSE acc

RECURSIVE hrwTargetLoop(_, _, _)
hrwTargetLoop(order, w, acc) ==
    IF order = <<>> THEN acc
    ELSE hrwTargetLoop(Tail(order), w, hrwTargetVisit(acc, Head(order), w))

\* var max uint32; for id, sinfo := range smap.Smap {...}; return
hrwTarget(order, w) ==
    hrwTargetLoop(order, w, [max |-> 0, si |-> NoTarget]).si

\* the target picker before any placement was asked for: smap is the cluster
\* map, decomm its nodes flagged Decommission, si the last decision and
\* order the iteration order it was made under; joined is the target added
\* since the decision oldSi over the map oldSmap
HrwIdle ==
    [called |-> FALSE, smap |-> {}, decomm |-> {}, w |-> [t \in TargetIds |-> 0],
     order |-> <<>>, si |-> NoTarget,
     joined |-> NoTarget, oldSi |-> NoTarget, oldSmap |-> {}]

\* si = hrwTarget(name, smap)
hrwTargetCall(order) ==
    /\ hrw' = [hrw EXCEPT !.called = TRUE, !.order = order,
                          !.si = hrwTarget(order, hrw.w)]
    /\ UNCHANGED <<cli, vmd, pk, avail, disabled, gfn, registered, alive,
                   resilverEnabled, pending, ran, last, th>>

\* a new version of the cluster map with target x added, after a placement
Join(x) ==
    /\ hrw.called
    /\ x \notin hrw.smap
    /\ hrw' = [hrw EXCEPT !.called = FALSE, !.smap = @ \cup {x}, !.order = <<>>,
                          !.si = NoTarget, !.joined = x,
                          !.oldSi = hrw.si, !.oldSmap = hrw.smap]
    /\ UNCHANGED <<cli, vmd, pk, avail, disabled, gfn, registered, alive,
                   resilverEnabled, pending, ran, last, th>>

----------------------------------------------------------------------------
(* HRW placement: hrwMpath over the mountpaths of the target, one step per *)
(* access so that a pick can overlap a lifecycle call.  ctx.mountpaths is  *)
(* the registry of available mountpaths as published by the mutators: a    *)
(* published registry is never modified, a transition publishes a new one. *)

\* mpath == ""
EmptyPath == ""

\* cs := xxhash...(path+":"+name, LCG32); if cs > max { max = cs; mpath = path }
hrwMpathVisit(acc, path, w) ==
    IF w[path] > acc.max THEN [max |-> w[path], mpath |-> path] ELSE acc

RECURSIVE hrwMpathLoop(_, _, _)
hrwMpathLoop(order, w, acc) ==
    IF order = <<>> THEN acc
    ELSE hrwMpathLoop(Tail(order), w, hrwMpathVisit(acc, Head(order), w))

\* var max uint32; for path, _ := range ctx.mountpaths {...}; return
hrwMpath(order, w) ==
    hrwMpathLoop(order, w, [max |-> 0, mpath |-> EmptyPath]).mpath

\* no mountpath pick in progress.  w holds the digests of path+":"+name,
\* start the registry when the call began, snapshot the map the range
\* expression evaluated to, visited the keys the loop has produced, acc the
\* locals max and mpath, res the returned path and end the registry when
\* the call returned
PkIdle ==
    [pc |-> "idle", w |-> [p \in MpathsC |-> 0], start |-> {}, snapshot |-> {},
     visited |-> {}, acc |-> [max |-> 0, mpath |-> EmptyPath], res |-> EmptyPath,
     end |-> {}]

\* a loop that looks up the registry again at every iteration
ranged_live(p, av) == av

\* the map the loop ranges over: the range expression ctx.mountpaths is
\* evaluated once, before the first iteration
ranged(p, av) == p.snapshot

\* hrwMpath(name) is called: var max uint32, and the range expression
PickBegin ==
    /\ alive
    /\ pk.pc \in {"idle", "done"}
    /\ pk' = [PkIdle EXCEPT !.pc = "loop", !.w = pk.w, !.start = avail,
                            !.snapshot = avail]
    /\ UNCHANGED <<cli, vmd, hrw, avail, disabled, gfn, registered, alive,
                   resilverEnabled, pending, ran, last, th>>

\* one iteration of the loop, on a key not produced yet
PickVisit(path) ==
    /\ alive
    /\ pk.pc = "loop"
    /\ path \in ranged(pk, avail) \ pk.visited
    /\ pk' = [pk EXCEPT !.visited = @ \cup {path},
                        !.acc = hrwMpathVisit(pk.acc, path, pk.w)]
    /\ UNCHANGED <<cli, vmd, hrw, avail, disabled, gfn, registered, alive,
                   resilverEnabled, pending, ran, last, th>>

\* the loop ends when every key was produced; return
PickReturn ==
    /\ alive
    /\ pk.pc = "loop"
    /\ ranged(pk, avail) \ pk.visited = {}
    /\ pk' = [pk EXCEPT !.pc = "done", !.res = pk.acc.mpath, !.end = avail]
    /\ UNCHANGED <<cli, vmd, hrw, avail, disabled, gfn, registered, alive,
                   resilverEnabled, pending, ran, last, th>>

----------------------------------------------------------------------------
(* CLI utilities (src/cmd/cli/commands/utils.go): determineClusterURL.     *)
(* The environment, the configuration and what the docker helpers return   *)
(* are the inputs of a call.                                               *)

\* no CLI utility was called
CliIdle == [fn |-> "none", pc |-> "idle"]

\* cfg.Cluster.DefaultDockerHost and cfg.Cluster.DefaultAISHost
DefaultDockerHost == "http://docker-default"

DefaultAISHost == "http://ais-default"

\* containers.ClusterProxyURL(id), when it succeeds
ProxyGateway(id) == "gw-" \o id

\* os.Getenv(cmn.EnvVars.Endpoint), cfg.Cluster.URL, containers.DockerRunning(),
\* and the results of containers.ClusterIDs() and containers.ClusterProxyURL()
UrlInputs ==
    [envURL : {"", "http://env"}, cfgURL : {"", "http://cfg"},
     dockerRunning : BOOLEAN, idsErr : BOOLEAN,
     ids : {<<>>, <<"c1">>, <<"c1", "c2">>}, proxyErr : BOOLEAN]

UrlResult(ret, stderr, panic) == [ret |-> ret, stderr |-> stderr, panic |-> panic]

\* the function without the first `if`: the environment is not consulted
determineClusterURL_noEnv(in) ==
    IF in.cfgURL # "" THEN UrlResult(in.cfgURL, <<>>, FALSE)
    ELSE IF in.dockerRunning
    THEN IF in.idsErr THEN UrlResult(DefaultDockerHost, <<"dockerErrMsg">>, FALSE)
         ELSE IF ~(Len(in.ids) > 0) THEN UrlResult("", <<>>, TRUE)
         ELSE IF in.proxyErr THEN UrlResult(DefaultDockerHost, <<"dockerErrMsg">>, FALSE)
         ELSE UrlResult("http://" \o ProxyGateway(in.ids[1]) \o ":8080",
                        IF Len(in.ids) > 1 THEN <<"Multiple docker clusters running">>
                        ELSE <<>>, FALSE)
    ELSE UrlResult(DefaultAISHost, <<>>, FALSE)

\* ret is the returned URL, stderr what was written to os.Stderr, panic
\* whether cmn.AssertMsg failed
determineClusterURL(in) ==
    IF in.envURL # "" THEN UrlResult(in.envURL, <<>>, FALSE)
    ELSE IF in.cfgURL # "" THEN UrlResult(in.cfgURL, <<>>, FALSE)
    ELSE IF in.dockerRunning
    THEN IF in.idsErr THEN UrlResult(DefaultDockerHost, <<"dockerErrMsg">>, FALSE)
         ELSE IF ~(Len(in.ids) > 0) THEN UrlResult("", <<>>, TRUE)
         ELSE IF in.proxyErr THEN UrlResult(DefaultDockerHost, <<"dockerErrMsg">>, FALSE)
         ELSE UrlResult("http://" \o ProxyGateway(in.ids[1]) \o ":8080",
                        IF Len(in.ids) > 1 THEN <<"Multiple docker clusters running">>
                        ELSE <<>>, FALSE)
    ELSE UrlResult(DefaultAISHost, <<>>, FALSE)

\* a call of determineClusterURL(cfg)
DetermineClusterURL(in) ==
    /\ cli.pc \in {"idle", "done", "panic"}
    /\ LET r == determineClusterURL(in)
       IN  cli' = [fn |-> "determineClusterURL",
                   pc |-> IF r.panic THEN "panic" ELSE "done",
                   in |-> in, ret |-> r.ret, stderr |-> r.stderr]
    /\ UNCHANGED <<vmd, hrw, pk, avail, disabled, gfn, registered, alive,
                   resilverEnabled, pending, ran, last, th>>

----------------------------------------------------------------------------
(* CLI utilities: limitedLineWriter, one loop iteration per step.  A       *)
(* format string is the sequence of its pieces, an int has the width of    *)
(* the model (MaxInt stands for math.MaxInt64), and the writer w is the    *)
(* sequence of the lines printed to it.                                    *)

\* math.MaxInt64, at the width of the model's ints
MaxInt == 15

\* the largest maxLines a call is made with
MaxLinesArg == 2

\* the argument lists a call is made with, and the lists of them
ArgLists == {<<>>, <<"a">>, <<"a", "b">>, <<"a", "b", "c">>}

ArgsInputs == {<<>>} \cup {<<a>> : a \in ArgLists} \cup (ArgLists \X ArgLists)

FmtStrs == {<<>>, <<"%s">>, <<"%s", "\n">>}

\* cmn.Min
Min(a, b) == IF a < b THEN a ELSE b

\* minLen := math.MaxInt64; for _, a := range args { minLen = cmn.Min(minLen, len(a)) }
RECURSIVE MinLen(_, _)
MinLen(args, minLen) ==
    IF args = <<>> THEN minLen
    ELSE MinLen(Tail(args), Min(minLen, Len(Head(args))))

\* if fmtStr == "" || fmtStr[len(fmtStr)-1] != '\n' { fmtStr += "\n" }
WithNewline(fmtStr) ==
    IF fmtStr = <<>> \/ fmtStr[Len(fmtStr)] # "\n" THEN Append(fmtStr, "\n") ELSE fmtStr

\* limitedLineWriter(w, maxLines, fmtStr, args...) up to the loop
LlwBegin(maxLines, fmtStr, args) ==
    /\ cli.pc \in {"idle", "done", "panic"}
    /\ cli' = [fn |-> "limitedLineWriter", pc |-> "loop",
               maxLinesArg |-> maxLines, args |-> args,
               fmtStr |-> WithNewline(fmtStr),
               maxLines |-> IF maxLines < 0 THEN MaxInt ELSE maxLines,
               minLen |-> MinLen(args, MaxInt),
               i |-> 0, objs |-> <<>>, out |-> <<>>]
    /\ UNCHANGED <<vmd, hrw, pk, avail, disabled, gfn, registered, alive,
                   resilverEnabled, pending, ran, last, th>>

\* one iteration of `for { ... }`: a[i] of a list with len(a) <= i is an
\* index out of range, which panics
LlwIterate ==
    /\ cli.fn = "limitedLineWriter"
    /\ cli.pc = "loop"
    /\ IF \E k \in 1..Len(cli.args) : Len(cli.args[k]) <= cli.i
       THEN cli' = [cli EXCEPT !.pc = "panic"]
       ELSE LET objs == cli.objs \o [k \in 1..Len(cli.args) |-> cli.args[k][cli.i + 1]]
                line == [kind |-> "line", fmtStr |-> cli.fmtStr, objs |-> objs]
                i == cli.i + 1
            IN  IF \E k \in 1..Len(cli.args) : Len(cli.args[k]) <= i
                THEN cli' = [cli EXCEPT !.pc = "done", !.i = i, !.objs = objs,
                                        !.out = Append(@, line)]
                ELSE IF i >= cli.maxLines
                THEN cli' = [cli EXCEPT !.pc = "done", !.i = i, !.objs = objs,
                                        !.out = Append(Append(@, line),
                                                       [kind |-> "more",
                                                        n |-> cli.minLen - i])]
                ELSE cli' = [cli EXCEPT !.i = i, !.objs = <<>>,
                                        !.out = Append(@, line)]
    /\ UNCHANGED <<vmd, hrw, pk, avail, disabled, gfn, registered, alive,
                   resilverEnabled, pending, ran, last, th>>

----------------------------------------------------------------------------
(* Specification *)

\* the registry is recovered from the VMD at startup
Init ==
    /\ avail \in InitRegistries
    /\ disabled = {}
    /\ vmd = [avail |-> avail, disabled |-> disabled]
    /\ cli = CliIdle
    /\ hrw = HrwIdle
    /\ pk = PkIdle
    /\ gfn = FALSE
    /\ registered = (avail # {})
    /\ alive = TRUE
    /\ resilverEnabled \in BOOLEAN
    /\ pending = <<>>
    /\ ran = <<>>
    /\ last = NoCall
    /\ th = [t \in Threads |-> Idle]

Next ==
    \/ \E p \in Mpaths, in \in Inputs : Room /\ enableMountpath(p, in)
    \/ \E p \in Mpaths, in \in Inputs : Room /\ disableMountpath(p, in)
    \/ \E p \in Mpaths, in \in Inputs : Room /\ addMountpath(p, in)
    \/ \E p \in Mpaths, in \in Inputs : Room /\ removeMountpath(p, in)
    \/ \E i \in 1..MaxPending : RunGoroutine(i)

Spec == Init /\ [][Next]_vars

\* the inputs of a target with enough BMD copies and a TargetSelf that
\* does not fail: CreateNewVMD succeeds or fails
InputsF == {in \in Inputs : in.selfOK /\ in.bmdEnough}

\* the calls and the goroutines; a call whose hook exits is taken also
\* while goroutines are pending
NextF ==
    \/ \E p \in MpathsC, in \in InputsF : enableMountpath(p, in)
    \/ \E p \in MpathsC, in \in InputsF : disableMountpath(p, in)
    \/ \E p \in MpathsC, in \in InputsF : addMountpath(p, in)
    \/ \E p \in MpathsC, in \in InputsF : removeMountpath(p, in)
    \/ \E i \in 1..MaxPending : RunGoroutine(i)

\* the resilver + RenewMakeNCopies goroutine of the given kind and id runs
RunRenew(kind, x) ==
    \E i \in 1..MaxPending :
        /\ i <= Len(pending)
        /\ pending[i].kind = kind
        /\ pending[i].id = x
        /\ RunGoroutine(i)

\* the Go scheduler runs every runnable goroutine eventually
SpecF ==
    /\ Init
    /\ [][NextF]_vars
    /\ \A kind \in {"add-mp", "del-mp"}, x \in GoIds : WF_vars(RunRenew(kind, x))

\* lifecycle calls of several threads, interleaved
NextC ==
    \/ \E t \in Threads, op \in {"add", "remove", "enable", "disable"}, p \in MpathsC :
          Begin(t, op, p)
    \/ \E t \in Threads, in \in Inputs : Mutate(t, in)
    \/ \E t \in Threads : PublishNew(t)
    \/ \E t \in Threads : Early(t)
    \/ \E t \in Threads : GetSnapshot(t)
    \/ \E t \in Threads, in \in Inputs : Event(t, in)
    \/ \E t \in Threads : Return(t)

SpecC == Init /\ [][NextC]_vars

\* the inputs with which t.enable() and t.disable() succeed
InputsSelfOK == {in \in Inputs : in.selfOK}

\* the interleaved lifecycle calls with a TargetSelf that never fails
NextQ ==
    \/ \E t \in Threads, op \in {"add", "remove", "enable", "disable"}, p \in MpathsC :
          Begin(t, op, p)
    \/ \E t \in Threads, in \in InputsSelfOK : Mutate(t, in)
    \/ \E t \in Threads : PublishNew(t)
    \/ \E t \in Threads : Early(t)
    \/ \E t \in Threads : GetSnapshot(t)
    \/ \E t \in Threads, in \in InputsSelfOK : Event(t, in)
    \/ \E t \in Threads : Return(t)

SpecQ == Init /\ [][NextQ]_vars

\* placements over every cluster map of TargetIds, every set of flagged
\* nodes and every table of digests; the target itself stays as constructed
InitH ==
    /\ avail = {}
    /\ disabled = {}
    /\ vmd = [avail |-> avail, disabled |-> disabled]
    /\ cli = CliIdle
    /\ \E s \in SUBSET TargetIds, w \in [TargetIds -> 0..MaxWeight] :
         \E d \in SUBSET s :
            hrw = [HrwIdle EXCEPT !.smap = s, !.decomm = d, !.w = w]
    /\ pk = PkIdle
    /\ gfn = FALSE
    /\ registered = FALSE
    /\ alive = TRUE
    /\ resilverEnabled = FALSE
    /\ pending = <<>>
    /\ ran = <<>>
    /\ last = NoCall
    /\ th = [t \in Threads |-> Idle]

NextH ==
    \/ \E order \in Orders(hrw.smap) : hrwTargetCall(order)
    \/ \E x \in TargetIds : Join(x)

SpecH == InitH /\ [][NextH]_vars

\* mountpath picks of one thread overlapping the lifecycle calls of another,
\* for every table of digests
InitP ==
    /\ avail \in InitRegistries
    /\ disabled = {}
    /\ vmd = [avail |-> avail, disabled |-> disabled]
    /\ cli = CliIdle
    /\ hrw = HrwIdle
    /\ \E w \in [MpathsC -> 0..MaxWeight] : pk = [PkIdle EXCEPT !.w = w]
    /\ gfn = FALSE
    /\ registered = (avail # {})
    /\ alive = TRUE
    /\ resilverEnabled = FALSE
    /\ pending = <<>>
    /\ ran = <<>>
    /\ last = NoCall
    /\ th = [t \in Threads |-> Idle]

NextP ==
    \/ PickBegin
    \/ \E p \in MpathsC : PickVisit(p)
    \/ PickReturn
    \/ \E op \in {"add", "remove", "enable", "disable"}, p \in MpathsC :
          Begin(1, op, p)
    \/ \E in \in Inputs : Mutate(1, in)
    \/ PublishNew(1)
    \/ Early(1)
    \/ GetSnapshot(1)
    \/ \E in \in Inputs : Event(1, in)
    \/ Return(1)

SpecP == InitP /\ [][NextP]_vars

\* calls of the CLI utilities, on every input; the target is not involved
InitU ==
    /\ avail = {}
    /\ disabled = {}
    /\ vmd = [avail |-> avail, disabled |-> disabled]
    /\ cli = CliIdle
    /\ hrw = HrwIdle
    /\ pk = PkIdle
    /\ gfn = FALSE
    /\ registered = FALSE
    /\ alive = TRUE
    /\ resilverEnabled = FALSE
    /\ pending = <<>>
    /\ ran = <<>>
    /\ last = NoCall
    /\ th = [t \in Threads |-> Idle]

NextU ==
    \/ \E in \in UrlInputs : DetermineClusterURL(in)
    \/ \E maxLines \in -1..MaxLinesArg, fmtStr \in FmtStrs, args \in ArgsInputs :
          LlwBegin(maxLines, fmtStr, args)
    \/ LlwIterate

SpecU == InitU /\ [][NextU]_vars

TypeOK ==
    /\ avail \subseteq Mpaths
    /\ disabled \subseteq Mpaths
    /\ gfn \in BOOLEAN
    /\ registered \in BOOLEAN
    /\ alive \in BOOLEAN
    /\ Len(pending) <= MaxPending

----------------------------------------------------------------------------
(* Vocabulary of the properties *)

\* the last call returned to its caller (the process did not exit in the hook)
CallReturned == last.op # "none" /\ last.outcome # "exit"

\* the last call returned early: the mutator failed or changed nothing
EarlyReturn == last.outcome \in {"noop", "error"}

\* the last call made a real transition and returned
RealTransition == last.outcome = "transition"

\* this step is a lifecycle call (and not a goroutine)
CallStep == last'.seq # last.seq

Fired(e) == Count(last.events, e)

\* the calls a wrapper makes besides the lifecycle events
GateCalls == {"Activate", "Deactivate"}

NoLifecycleEvent(c) ==
    /\ c.action = "none"
    /\ \A i \in 1..Len(c.events) : c.events[i] \in GateCalls

\* what the registry mutator of call c returns on its no-change branches
MutatorErr(c) ==
    LET h == [events |-> <<>>, exit |-> FALSE]
    IN  CASE c.op = "add" -> fsAdd(c.mpath, c.availBefore, c.disabledBefore, h).err
          [] c.op = "remove" -> fsRemove(c.mpath, c.availBefore, c.disabledBefore, h).err
          [] c.op = "enable" -> fsEnable(c.mpath, c.availBefore, c.disabledBefore, h).err
          [] c.op = "disable" -> fsDisable(c.mpath, c.availBefore, c.disabledBefore, h).err

\* the registry a real transition of call c publishes
PostAvail(c) ==
    IF c.op \in {"add", "enable"} THEN c.availBefore \cup {c.mpath}
    ELSE c.availBefore \ {c.mpath}

PostDisabled(c) ==
    CASE c.op = "add" -> c.disabledBefore
      [] c.op = "disable" -> c.disabledBefore \cup {c.mpath}
      [] OTHER -> c.disabledBefore \ {c.mpath}

----------------------------------------------------------------------------
(* Properties *)

\* C1 (as stated): for every outcome of a lifecycle call that returns, the
\* GFN flag at the return equals the flag when the call began.
C1_GfnUnchangedByAnyCall ==
    CallReturned => last.gfnAfter = last.gfnBefore

\* C1 (amended): with calls running one at a time, a call that fails or
\* changes nothing returns with the GFN flag it began with, and a call that
\* made a real transition returns with the flag set.
C1_GfnAtReturn ==
    CallReturned =>
        /\ gfn = last.gfnAfter
        /\ EarlyReturn => last.gfnAfter = last.gfnBefore
        /\ RealTransition => last.gfnAfter = TRUE

C1_Witness ==
    /\ RealTransition
    /\ last.gfnBefore = FALSE
    /\ last.gfnAfter = TRUE

\* C2: on an early return the wrapper calls Deactivate() exactly when its
\* own Activate() turned the flag on (the flag was clear when the call
\* began), so the flag ends as it began; and a call that fails or changes
\* nothing while the flag is clear leaves it clear.
C2_EarlyReturnReleasesOwnActivation ==
    /\ [](EarlyReturn =>
            /\ Fired("Activate") = 1
            /\ Fired("Deactivate") = (IF last.gfnBefore THEN 0 ELSE 1)
            /\ last.gfnAfter = last.gfnBefore)
    /\ [][(CallStep /\ ~gfn /\ last'.outcome \in {"noop", "error"}) => ~gfn']_vars

\* both cases of C2 are reached: an early return that began with the flag
\* set by an earlier transition
C2_Witness ==
    /\ EarlyReturn
    /\ last.gfnBefore = TRUE
    /\ Fired("Deactivate") = 0
    /\ gfn = TRUE

\* C3: a call whose mutator returned an error or a nil descriptor fires no
\* lifecycle event and leaves the registration alone; enableMountpath and
\* disableMountpath return false with the mutator's error (nil for a no-op),
\* and return (true, nil) exactly on a real transition.
C3_NoEventWithoutTransition ==
    /\ EarlyReturn =>
        /\ NoLifecycleEvent(last)
        /\ last.regAfter = last.regBefore
        /\ last.err = MutatorErr(last)
        /\ (last.err = "nil") = (last.outcome = "noop")
        /\ last.op \in {"enable", "disable"} => last.bool = "false"
    /\ (CallReturned /\ last.op \in {"enable", "disable"}) =>
        ((last.bool = "true" /\ last.err = "nil") <=> RealTransition)

C3_Witness ==
    /\ last.op = "enable"
    /\ last.outcome = "noop"
    /\ last.bool = "false"
    /\ last.err = "nil"

\* C4: a remove or disable transition calls TargetSelf.disable() once when
\* it leaves no available mountpath and not at all otherwise; an add or
\* enable transition on a target without available mountpaths calls
\* TargetSelf.enable() once.
C4_SelfDisableOnLastEnableOnFirst ==
    /\ (RealTransition /\ last.op \in {"remove", "disable"}) =>
        Fired("TargetSelf.disable") = (IF last.availAfter = {} THEN 1 ELSE 0)
    /\ (RealTransition /\ last.op \in {"add", "enable"} /\ last.availBefore = {}) =>
        Fired("TargetSelf.enable") = 1

\* the first mountpath comes back after the last one was taken away
C4_Witness ==
    /\ RealTransition
    /\ last.op \in {"add", "enable"}
    /\ last.availBefore = {}
    /\ last.disabledBefore # {}
    /\ Fired("TargetSelf.enable") = 1

\* the scenario of C5: Disable("/m1") on two available mountpaths was the
\* last call and this step is Remove("/m1")
C5_Scenario ==
    /\ last.op = "disable" /\ last.mpath = "/m1" /\ RealTransition
    /\ Cardinality(last.availBefore) = 2
    /\ CallStep
    /\ last'.op = "remove" /\ last'.mpath = "/m1" /\ last'.outcome = "transition"

\* C5 (as stated): Disable("/m1") on a two-mountpath target triggers no
\* self-disable, and the Remove("/m1") that follows calls
\* TargetSelf.disable() once.
C5_DisableThenRemoveSelfDisables ==
    [][C5_Scenario =>
        /\ Fired("TargetSelf.disable") = 0
        /\ Count(last'.events, "TargetSelf.disable") = 1]_vars

\* C5 (amended): Disable("/m1") on a two-mountpath target triggers no
\* self-disable, and neither does the Remove("/m1") that follows: the other
\* mountpath is still available.
C5_DisableThenRemoveKeepsTarget ==
    [][C5_Scenario =>
        /\ Fired("TargetSelf.disable") = 0
        /\ Count(last'.events, "TargetSelf.disable") = 0
        /\ Cardinality(avail') = 1
        /\ registered' = registered]_vars

C5_Witness ==
    /\ last.op = "remove" /\ last.mpath = "/m1" /\ RealTransition
    /\ "/m1" \in last.disabledBefore
    /\ last.availBefore = {"/m3"}
    /\ avail = {"/m3"}

\* a thread returned from an add or enable that made a real transition
AddedOrEnabled(t) ==
    /\ th[t].pc = "ret"
    /\ th[t].op \in {"add", "enable"}
    /\ th[t].mi # NoMpath

\* C6: after a real add or enable transition TargetSelf.enable() is called
\* if and only if the post-event check observed exactly one available
\* mountpath; it is not called for more than one, and never for zero.
C6_EnableIffOneAvailable ==
    \A t \in Threads : AddedOrEnabled(t) =>
        /\ (Count(th[t].events, "TargetSelf.enable") = 1)
              <=> (Cardinality(th[t].snapshot) = 1)
        /\ Count(th[t].events, "TargetSelf.enable") > 0 => th[t].snapshot # {}

\* C7: an error of TargetSelf.enable() or TargetSelf.disable() in the
\* post-event phase is not returned and rolls nothing back: the call
\* reports success and the registry holds the post-transition state.
C7_SelfRegistrationErrorNotReturned ==
    (CallReturned /\ last.logged # "nil") =>
        /\ RealTransition
        /\ last.err = "nil"
        /\ last.op \in {"enable", "disable"} => last.bool = "true"
        /\ last.availAfter = PostAvail(last)
        /\ last.disabledAfter = PostDisabled(last)
        /\ avail = last.availAfter
        /\ disabled = last.disabledAfter

C7_Witness ==
    /\ last.op = "enable"
    /\ last.logged = "EREG"
    /\ last.bool = "true"
    /\ last.mpath \in avail

VmdWrites(c) == Count(c.events, "CreateNewVMD")

\* C8: the hook, and with it the VMD write, runs once for every real
\* transition and not at all for a no-op or failed mutator call; Add(p)
\* then Remove(p) of a path the registry did not know gives the events
\* Added then Removed, two VMD writes, and p in neither set.
C8_HookOncePerTransition ==
    /\ [](CallReturned => VmdWrites(last) = (IF RealTransition THEN 1 ELSE 0))
    /\ [][(/\ last.op = "add" /\ RealTransition
           /\ CallStep
           /\ last'.op = "remove" /\ last'.mpath = last.mpath
           /\ last'.outcome # "exit") =>
             /\ last.action = addMpathAct
             /\ last'.action = removeMpathAct
             /\ VmdWrites(last) + VmdWrites(last') = 2
             /\ last.mpath \notin avail' \cup disabled']_vars

\* a path unknown at the start was added and is removed again
C8_Witness ==
    /\ last.op = "remove" /\ last.mpath = "/m2" /\ RealTransition
    /\ last.action = removeMpathAct
    /\ VmdWrites(last) = 1
    /\ "/m2" \notin avail \cup disabled

\* the Add of the last call names a known path, or a path on the filesystem
\* of an available mountpath
AddRefused ==
    /\ last.op = "add"
    /\ \/ last.mpath \in last.availBefore \cup last.disabledBefore
       \/ \E q \in last.availBefore : Fsid[q] = Fsid[last.mpath]

\* C9: Add of a known path and Add of a path whose fsid an available
\* mountpath uses return an error and change nothing: the registry is as
\* before, no VMD is written, no lifecycle event fires, and the GFN flag
\* is as it was before the call.
C9_RefusedAddChangesNothing ==
    AddRefused =>
        /\ last.outcome = "error"
        /\ last.err = (IF last.mpath \in last.availBefore \cup last.disabledBefore
                       THEN "EEXIST" ELSE "EDUPFS")
        /\ last.availAfter = last.availBefore
        /\ last.disabledAfter = last.disabledBefore
        /\ avail = last.availAfter /\ disabled = last.disabledAfter
        /\ VmdWrites(last) = 0
        /\ NoLifecycleEvent(last)
        /\ last.regAfter = last.regBefore
        /\ last.gfnAfter = last.gfnBefore

C9_Witness ==
    /\ AddRefused
    /\ last.err = "EDUPFS"
    /\ last.mpath \notin avail \cup disabled

\* C10: no two available mountpaths share an fsid.
C10_NoTwoAvailableOnOneFsid ==
    \A p, q \in avail : p # q => Fsid[p] # Fsid[q]

\* C11: the available and the disabled set are disjoint, so every known
\* path is in exactly one of them; Enable moves its path from disabled to
\* available, Disable from available to disabled, Remove deletes it from
\* the set that holds it, and no call touches another path.
C11_RegistrySetsPartitionKnownPaths ==
    /\ avail \cap disabled = {}
    /\ CallReturned =>
        /\ last.availAfter \ {last.mpath} = last.availBefore \ {last.mpath}
        /\ last.disabledAfter \ {last.mpath} = last.disabledBefore \ {last.mpath}
        /\ avail = last.availAfter /\ disabled = last.disabledAfter
    /\ (RealTransition /\ last.op = "enable") =>
        /\ last.mpath \in last.disabledBefore \ last.availBefore
        /\ last.mpath \in last.availAfter \ last.disabledAfter
    /\ (RealTransition /\ last.op = "disable") =>
        /\ last.mpath \in last.availBefore \ last.disabledBefore
        /\ last.mpath \in last.disabledAfter \ last.availAfter
    /\ (RealTransition /\ last.op = "remove") =>
        /\ last.mpath \in last.availBefore \cup last.disabledBefore
        /\ last.mpath \notin last.availAfter \cup last.disabledAfter
    /\ (RealTransition /\ last.op = "add") =>
        /\ last.mpath \notin last.availBefore \cup last.disabledBefore
        /\ last.mpath \in last.availAfter \ last.disabledAfter

\* a disabled path is enabled again while another path is known
C11_Witness ==
    /\ RealTransition /\ last.op = "enable"
    /\ last.mpath \in avail
    /\ avail \cup disabled # {last.mpath}

\* the hook of the last call saw CreateNewVMD or the BMD persist fail
HookFailed ==
    Fired("CreateNewVMD:err") + Fired("bmd.persist:err") > 0

\* the calls the hook makes
HookCalls ==
    {"bmd.persist", "bmd.persist:err", "CreateNewVMD", "CreateNewVMD:err", "ExitLogf"}

\* C12: when CreateNewVMD (or a required BMD persist) fails in the hook the
\* process terminates there: the mutator does not return, no lifecycle
\* event is fired, the registry any reader can see is the one from before
\* the call, and nothing happens afterwards.
C12_FailedPersistTerminatesInHook ==
    /\ [](HookFailed =>
            /\ last.outcome = "exit"
            /\ ~alive
            /\ Fired("ExitLogf") = 1
            /\ last.events[Len(last.events)] = "ExitLogf"
            /\ \A i \in 1..Len(last.events) :
                  last.events[i] \in GateCalls \cup HookCalls
            /\ last.action = "none"
            /\ last.regAfter = last.regBefore
            /\ avail = last.availBefore
            /\ disabled = last.disabledBefore)
    /\ [][~alive => UNCHANGED vars]_vars

\* CreateNewVMD failed in the hook of an Add
C12_Witness ==
    /\ last.op = "add"
    /\ Fired("CreateNewVMD:err") = 1
    /\ ~alive
    /\ last.mpath \notin avail

\* the thread's mutator made a real transition and returned to the wrapper
PastMutator(t) ==
    \/ th[t].pc \in {"event", "check"}
    \/ th[t].pc = "ret" /\ th[t].mi # NoMpath

\* the thread called TargetSelf.enable() or TargetSelf.disable()
CalledTargetSelf(t) ==
    Count(th[t].events, "TargetSelf.enable")
        + Count(th[t].events, "TargetSelf.disable") > 0

\* C13: on every real transition the VMD the hook writes is on disk before
\* the new registry can be read (by fs.Get() of the zero/first-mountpath
\* checks or by a mountpath pick), and the self-(de)registration of the
\* target comes after that write.
C13_VmdWrittenBeforeVisible ==
    /\ [](\A t \in Threads :
            /\ (th[t].pc = "publish" \/ PastMutator(t)) => th[t].wrote
            /\ CalledTargetSelf(t) => th[t].wrote /\ PastMutator(t)
            /\ th[t].pc = "publish" => vmd = th[t].staged)
    /\ [][(avail' # avail \/ disabled' # disabled) =>
            /\ vmd = [avail |-> avail', disabled |-> disabled']
            /\ vmd' = vmd
            /\ registered' = registered]_vars

\* a thread removed the last mountpath and unregistered the target: the VMD
\* on disk and the registry both show no mountpath
C13_Witness ==
    \E t \in Threads :
        /\ th[t].pc = "ret"
        /\ th[t].op = "remove"
        /\ Count(th[t].events, "TargetSelf.disable") = 1
        /\ th[t].wrote
        /\ vmd = [avail |-> {}, disabled |-> {}]
        /\ avail = {}

\* C14: hrwTarget returns a target of the cluster map for every name and
\* every map, never nil: also for the empty map and for digests equal to 0.
C14_PickedTargetIsInMap ==
    hrw.called => hrw.si \in hrw.smap

\* C15: hrwTarget returns the candidate of maximal weight: a target of
\* the map such that no target of the map has a strictly larger digest.
C15_PickedTargetHasMaximalWeight ==
    (hrw.called /\ hrw.smap # {}) =>
        /\ hrw.si \in hrw.smap
        /\ \A t \in hrw.smap : hrw.w[t] <= hrw.w[hrw.si]

\* C16: for the same name and the same cluster map the decision is the same
\* under every iteration order of the map, equal maximal weights included:
\* a placement repeated on an unchanged map returns the same target.
C16_DecisionStableUnderIterationOrder ==
    [][(hrw.called /\ hrw'.called /\ hrw'.smap = hrw.smap /\ hrw'.w = hrw.w)
          => hrw'.si = hrw.si]_vars

\* C17: a node flagged Decommission is never returned by the target
\* picker, also when its weight for the name is the maximum.
C17_DecommissionedNeverPicked ==
    hrw.called => hrw.si \notin hrw.decomm

\* the largest digest among the targets of a non-empty map
MaxOf(s, w) == CHOOSE m \in {w[t] : t \in s} : \A t \in s : w[t] <= m

\* C18: after target X joined the map, the owner of the name differs from
\* the owner before iff X's weight is strictly greater than the maximum
\* weight of the old targets, and then the new owner is X.
C18_MinimalDisruption ==
    (hrw.called /\ hrw.joined # NoTarget /\ hrw.oldSmap # {}) =>
        LET wX == hrw.w[hrw.joined]
            maxOld == MaxOf(hrw.oldSmap, hrw.w)
        IN  /\ (hrw.si # hrw.oldSi) <=> (wX > maxOld)
            /\ (wX > maxOld) => hrw.si = hrw.joined

\* the paths hrwMpath returns over the registry av, one per iteration order
Winners(av, w) == {hrwMpath(o, w) : o \in Orders(av)}

InProgress(t) == th[t].pc \in {"mutate", "publish", "early", "event", "check"}

Quiescent == \A t \in Threads : th[t].pc \in {"idle", "ret"}

\* C21: under every interleaving of overlapping add/enable and
\* remove/disable calls, once all of them and their post-event checks have
\* finished the registration agrees with the registry: the target is
\* unregistered only if no mountpath is available.
C21_RegistrationAgreesWhenQuiescent ==
    (alive /\ Quiescent) => (avail # {} => registered)

\* what a lifecycle event does after the abort: the dispatches with `go`,
\* and what the zero/first-mountpath check logs and calls
AfterAbort ==
    {"go:add-mp", "go:del-mp", "go:EvictLomCache",
     "TargetSelf.enable", "TargetSelf.disable"}
    \cup {"log:" \o a : a \in {addMpathAct, enableMpathAct, removeMpathAct, disableMpathAct}}
    \cup {"log:" \o a \o " the first" : a \in {addMpathAct, enableMpathAct}}
    \cup {"log:" \o a \o " the last" : a \in {removeMpathAct, disableMpathAct}}

RenewCalls == {"RenewMakeNCopies:add-mp", "RenewMakeNCopies:del-mp"}

\* C22: on every real transition AbortAllMountpathsXactions() is called once
\* and before the resilver / RenewMakeNCopies job and EvictLomCache are
\* dispatched and before the zero/first-mountpath check acts; a job exists
\* only once the call that aborted has dispatched it, and inside the job the
\* resilver (when run) comes before RenewMakeNCopies.
C22_AbortBeforeDispatchAndCheck ==
    /\ [](RealTransition =>
            /\ Fired("AbortAllMountpathsXactions") = 1
            /\ \A i \in 1..Len(last.events) :
                  last.events[i] \in AfterAbort =>
                      IndexOf(last.events, "AbortAllMountpathsXactions") < i)
    /\ [](\A i, j \in 1..Len(ran) :
            (ran[i] = "runResilver" /\ ran[j] \in RenewCalls) => i < j)
    /\ [][Len(pending') > Len(pending) =>
            /\ CallStep
            /\ Count(last'.events, "AbortAllMountpathsXactions") = 1]_vars

\* a removal that left a mountpath dispatched the eviction and the del-mp
\* job, and a job ran the resilver and RenewMakeNCopies
C22_Witness ==
    /\ RealTransition
    /\ last.op = "remove"
    /\ Fired("go:EvictLomCache") = 1
    /\ Fired("go:del-mp") = 1
    /\ Len(ran) = 2

\* the resilver + RenewMakeNCopies goroutine of that kind and id is pending
RenewPending(kind, x) ==
    \E i \in 1..Len(pending) : pending[i].kind = kind /\ pending[i].id = x

RenewKinds == {"add-mp", "del-mp"}

\* the call of this step dispatched a resilver + RenewMakeNCopies job
DispatchedRenew(kind) ==
    /\ Count(last'.events, "go:" \o kind) = 1
    /\ Len(pending') = Len(pending) + (IF kind = "add-mp" THEN 1 ELSE 2)
    /\ pending'[Len(pending')].kind = kind

\* C23 as stated: the job of every such transition eventually runs under
\* fair scheduling of the goroutines.
C23_RenewEventuallyInvoked ==
    \A kind \in RenewKinds, x \in GoIds :
        RenewPending(kind, x) ~> ~RenewPending(kind, x)

\* C23: every real add/enable transition, and every real remove/disable
\* that leaves a mountpath available, dispatches one job; a job leaves the
\* pending ones only by running, it then invokes RenewMakeNCopies, after a
\* resilver pass iff Resilver.Enabled; under fair scheduling the job runs
\* unless the process is terminated first (a failed persist in the hook of
\* a later call).
C23_RenewInvokedUnlessExit ==
    /\ [][CallStep =>
            LET c == last'
            IN  /\ (c.outcome = "transition" /\ c.op \in {"add", "enable"}) =>
                       DispatchedRenew("add-mp")
                /\ (c.outcome = "transition" /\ c.op \in {"remove", "disable"}
                        /\ c.availAfter # {}) => DispatchedRenew("del-mp")]_vars
    /\ [][Len(pending') < Len(pending) =>
            \E i \in 1..Len(pending) :
                /\ pending' = RemoveAt(pending, i)
                /\ ran' = jobBody(pending[i], resilverEnabled)
                /\ pending[i].kind \in {"add-mp", "del-mp"} =>
                    /\ Len(ran') > 0
                    /\ ran'[Len(ran')] = "RenewMakeNCopies:" \o pending[i].kind
                    /\ (Count(ran', "runResilver") = 1) <=> resilverEnabled
                    /\ Count(ran', "runResilver") <= 1]_vars
    /\ \A kind \in RenewKinds, x \in GoIds :
          RenewPending(kind, x) ~> (~RenewPending(kind, x) \/ ~alive)

\* the job of a removal that left a mountpath available has run, with the
\* resilver pass, and nothing is pending
C23_Witness ==
    /\ alive
    /\ resilverEnabled
    /\ RealTransition
    /\ last.op = "remove"
    /\ last.availAfter # {}
    /\ ran = <<"runResilver", "RenewMakeNCopies:del-mp">>
    /\ pending = <<>>

\* the goroutines the call of this step dispatched
NewJobs == SubSeq(pending', Len(pending) + 1, Len(pending'))

\* the kinds, and the mountpaths, of the goroutines the call dispatched
NewKinds == [i \in 1..Len(NewJobs) |-> NewJobs[i].kind]

NewMpaths == [i \in 1..Len(NewJobs) |-> NewJobs[i].mpath]

\* C24: every real remove/disable transition dispatches EvictLomCache for
\* the removed/disabled mountpath and no other, also when it was the last
\* available one; a transition that leaves no mountpath available dispatches
\* neither a resilver nor RenewMakeNCopies; add/enable transitions evict
\* nothing.
C24_EvictOnEveryRemoval ==
    [][(CallStep /\ last'.outcome = "transition") =>
          /\ SubSeq(pending', 1, Len(pending)) = pending
          /\ last'.op \in {"remove", "disable"} =>
                /\ Count(last'.events, "go:EvictLomCache") = 1
                /\ Count(NewKinds, "EvictLomCache") = 1
                /\ NewMpaths[IndexOf(NewKinds, "EvictLomCache")] = last'.mpath
                /\ Count(NewKinds, "add-mp") = 0
                /\ last'.availAfter = {} =>
                      /\ NewKinds = <<"EvictLomCache">>
                      /\ Count(last'.events, "go:del-mp") = 0
                /\ last'.availAfter # {} =>
                      NewKinds = <<"EvictLomCache", "del-mp">>
          /\ last'.op \in {"add", "enable"} =>
                /\ Count(last'.events, "go:EvictLomCache") = 0
                /\ NewKinds = <<"add-mp">>]_vars

\* the last available mountpath was disabled: its eviction is the only
\* goroutine dispatched
C24_Witness ==
    /\ RealTransition
    /\ last.op = "disable"
    /\ last.availAfter = {}
    /\ Fired("go:EvictLomCache") = 1
    /\ Fired("go:del-mp") = 0
    /\ Len(pending) = 1
    /\ pending[1].kind = "EvictLomCache"
    /\ pending[1].mpath = last.mpath

\* the registry mutator of the last call invoked the hook
HookInvoked == last.outcome \in {"transition", "exit"}

\* the calls of bmd.persist() and of fs.CreateNewVMD() in the last call
BmdPersists == Fired("bmd.persist") + Fired("bmd.persist:err")

VmdCreates == Fired("CreateNewVMD") + Fired("CreateNewVMD:err")

\* C25 as stated: a new VMD is created on every invocation of the hook,
\* whatever hasEnoughBMDCopies() returned.
C25_VmdCreatedOnEveryInvocation ==
    HookInvoked => VmdCreates = 1

\* C25: inside redistributeMD the BMD is persisted iff hasEnoughBMDCopies()
\* is false, and before the VMD is created; the VMD is created on every
\* invocation whatever the BMD predicate, except that a failed BMD persist
\* terminates the process before the VMD is created.
C25_PersistBmdIfNeededThenVmd ==
    /\ ~HookInvoked => (BmdPersists = 0 /\ VmdCreates = 0 /\ last.enough = "n/a")
    /\ HookInvoked =>
          /\ last.enough \in {"true", "false"}
          /\ (BmdPersists = 1) <=> (last.enough = "false")
          /\ BmdPersists <= 1
          /\ (Fired("bmd.persist:err") = 0) <=> (VmdCreates = 1)
          /\ VmdCreates <= 1
          /\ Fired("bmd.persist:err") = 1 => last.outcome = "exit"
          /\ (Fired("bmd.persist") = 1 /\ Fired("CreateNewVMD") = 1) =>
                IndexOf(last.events, "bmd.persist") < IndexOf(last.events, "CreateNewVMD")
          /\ (Fired("bmd.persist") = 1 /\ Fired("CreateNewVMD:err") = 1) =>
                IndexOf(last.events, "bmd.persist")
                    < IndexOf(last.events, "CreateNewVMD:err")

\* a transition whose hook persisted the BMD and then created the VMD
C25_Witness ==
    /\ RealTransition
    /\ last.enough = "false"
    /\ Fired("bmd.persist") = 1
    /\ Fired("CreateNewVMD") = 1

\* a call of determineClusterURL has ended
UrlCalled == cli.fn = "determineClusterURL"

\* docker discovery succeeded: cluster ids and the proxy URL of the first
Discovered(in) == ~in.idsErr /\ Len(in.ids) > 0 /\ ~in.proxyErr

\* the resolving order after the configured URL: docker proxy, docker
\* default, AIS default
ResolvedByDocker(in, ret) ==
    /\ (in.dockerRunning /\ Discovered(in)) =>
          ret = "http://" \o ProxyGateway(in.ids[1]) \o ":8080"
    /\ (in.dockerRunning /\ (in.idsErr \/ (Len(in.ids) > 0 /\ in.proxyErr))) =>
          ret = DefaultDockerHost
    /\ ~in.dockerRunning => ret = DefaultAISHost

LinesPrinted ==
    Cardinality({k \in 1..Len(cli.out) : cli.out[k].kind = "line"})

\* C27: limitedLineWriter ends by returning for every input, also with an
\* empty argument list; with maxLines >= 0 it has then printed at most
\* maxLines formatted lines (also for maxLines = 0), and with maxLines < 0
\* one line per index of the shortest argument list.
C27_AtMostMaxLines ==
    cli.fn = "limitedLineWriter" =>
        /\ cli.pc # "panic"
        /\ (cli.pc = "done" /\ cli.maxLinesArg >= 0) =>
              LinesPrinted <= cli.maxLinesArg
        /\ (cli.pc = "done" /\ cli.maxLinesArg < 0 /\ cli.args # <<>>) =>
              LinesPrinted = MinLen(cli.args, MaxInt)

====
